---- MODULE Spec2Model ----
(***************************************************************************)
(* Model of the paste/drop upload workflow of SpacesUploaderPlugin         *)
(* (src/main.ts): event intake, placeholder insertion, upload dispatch to  *)
(* the remote bucket or the local vault folder, and the text-based         *)
(* reconciliation of the placeholder.                                      *)
(*                                                                         *)
(* Strings are sequences of tokens.  A token is either one character       *)
(* ("a", ".", "/", "\n") or a fixed literal of the source that no          *)
(* operation of the program ever splits ("![uploading...](").              *)
(***************************************************************************)
EXTENDS Integers, Sequences, FiniteSets, TLC

\* ------------------------------------------------------------------ bounds
MaxEvents == 2
MaxUserOps == 1
MaxFmKeys == 2

Events == 1..MaxEvents

\* ----------------------------------------------------- JavaScript strings
Empty == << >>

NL == "\n"

Whitespace == {NL, " ", "\t"}

\* s.slice(from) with from >= 0, 0-based
SliceFrom(s, from) ==
    IF from >= Len(s) THEN Empty ELSE SubSeq(s, from + 1, Len(s))

\* s.slice(from, to), 0-based, to exclusive
Slice(s, from, to) == SubSeq(s, from + 1, to)

StartsWithAt(s, t, i) ==
    /\ i + Len(t) <= Len(s)
    /\ \A k \in 1..Len(t) : s[i + k] = t[k]

\* s.indexOf(t): 0-based index of the first occurrence, -1 when absent
IndexOf(s, t) ==
    LET hits == {i \in 0..Len(s) : StartsWithAt(s, t, i)}
    IN  IF hits = {} THEN -1
        ELSE CHOOSE i \in hits : \A j \in hits : i <= j

\* s.lastIndexOf(t)
LastIndexOf(s, t) ==
    LET hits == {i \in 0..Len(s) : StartsWithAt(s, t, i)}
    IN  IF hits = {} THEN -1
        ELSE CHOOSE i \in hits : \A j \in hits : i >= j

\* s.trim()
RECURSIVE TrimLeft(_)
TrimLeft(s) ==
    IF s # Empty /\ Head(s) \in Whitespace THEN TrimLeft(Tail(s)) ELSE s

RECURSIVE TrimRight(_)
TrimRight(s) ==
    IF s # Empty /\ s[Len(s)] \in Whitespace
    THEN TrimRight(SubSeq(s, 1, Len(s) - 1)) ELSE s

Trim(s) == TrimRight(TrimLeft(s))

\* s.split("\n")
RECURSIVE Split(_)
Split(s) ==
    LET i == IndexOf(s, <<NL>>)
    IN  IF i = -1 THEN <<s>>
        ELSE <<Slice(s, 0, i)>> \o Split(SliceFrom(s, i + 1))

\* s.match(re) for the unanchored patterns of the handler: the pattern's
\* literal occurs somewhere in s
Matches(s, literal) == IndexOf(s, literal) # -1

\* ------------------------------------------------------------ the editor
\* Editor state: the buffer text and the selection (anchor, head) as offsets.
\* Offset of an EditorPosition {line, ch} in text
RECURSIVE LineStart(_, _)
LineStart(lines, i) ==
    IF i = 0 THEN 0 ELSE LineStart(lines, i - 1) + Len(lines[i]) + 1

PosToOffset(text, line, ch) == LineStart(Split(text), line) + ch

Min(a, b) == IF a <= b THEN a ELSE b
Max(a, b) == IF a >= b THEN a ELSE b

\* editor.replaceSelection(t): the selection is replaced, the cursor ends
\* after the inserted text
ReplaceSelection(ed, t) ==
    LET from == Min(ed.anchor, ed.head)
        to   == Max(ed.anchor, ed.head)
    IN  [text   |-> Slice(ed.text, 0, from) \o t \o SliceFrom(ed.text, to),
         anchor |-> from + Len(t),
         head   |-> from + Len(t)]

\* editor.setCursor(pos)
SetCursor(ed, off) == [ed EXCEPT !.anchor = off, !.head = off]

\* a selection end mapped through the replacement of [from, to) by n tokens
MapPos(p, from, to, n) ==
    IF p <= from THEN p
    ELSE IF p >= to THEN p - (to - from) + n
    ELSE from

\* editor.replaceRange(t, from, to)
ReplaceRange(ed, t, from, to) ==
    [text   |-> Slice(ed.text, 0, from) \o t \o SliceFrom(ed.text, to),
     anchor |-> MapPos(ed.anchor, from, to, Len(t)),
     head   |-> MapPos(ed.head, from, to, Len(t))]

\* replaceText with the end of the range computed from the untrimmed target
RECURSIVE ReplaceTextUntrimmedScan(_, _, _, _, _)
ReplaceTextUntrimmedScan(ed, lines, i, target, replacement) ==
    IF i >= Len(lines) THEN ed
    ELSE LET ch == IndexOf(lines[i + 1], Trim(target))
         IN  IF ch # -1
             THEN LET from == PosToOffset(ed.text, i, ch)
                      to   == Min(from + Len(target), Len(ed.text))
                  IN  ReplaceRange(SetCursor(ed, from), replacement, from, to)
             ELSE ReplaceTextUntrimmedScan(ed, lines, i + 1, target, replacement)

replaceTextUntrimmed(ed, target, replacement) ==
    ReplaceTextUntrimmedScan(ed, Split(ed.text), 0, target, replacement)

\* replaceText with the `ch !== -1` test left out: the first line is taken
\* as the match, its positions clipped to the line by the editor
replaceTextNoFoundCheck(ed, target, replacement) ==
    LET t == Trim(target)
        line == Split(ed.text)[1]
        ch == IndexOf(line, t)
        from == Max(ch, 0)
        to == Min(Max(ch + Len(t), 0), Len(line))
    IN  ReplaceRange(SetCursor(ed, from), replacement, from, to)

\* replaceText searching for the fixed head of the placeholder only, not
\* for the content key after it
replaceTextAnyKey(ed, target, replacement) ==
    LET t == Trim(target)
        from == IndexOf(ed.text, <<Head(t)>>)
    IN  IF from = -1 THEN ed
        ELSE ReplaceRange(SetCursor(ed, from), replacement, from,
                          Min(from + Len(t), Len(ed.text)))

\* replaceText replacing the last occurrence of the target in the document
replaceTextLast(ed, target, replacement) ==
    LET t == Trim(target)
        from == LastIndexOf(ed.text, t)
    IN  IF from = -1 THEN ed
        ELSE ReplaceRange(SetCursor(ed, from), replacement, from,
                          from + Len(t))

\* the for loop of replaceText from line index i on
RECURSIVE ReplaceTextScan(_, _, _, _, _)
ReplaceTextScan(ed, lines, i, target, replacement) ==
    IF i >= Len(lines) THEN ed
    ELSE LET ch == IndexOf(lines[i + 1], target)
         IN  IF ch # -1
             THEN LET from == PosToOffset(ed.text, i, ch)
                      to   == PosToOffset(ed.text, i, ch + Len(target))
                  IN  ReplaceRange(SetCursor(ed, from), replacement, from, to)
             ELSE ReplaceTextScan(ed, lines, i + 1, target, replacement)

\* replaceText with the loop running on after a match (no break): every
\* occurrence of the target is replaced
RECURSIVE replaceTextAll(_, _, _)
replaceTextAll(ed, target, replacement) ==
    LET e == ReplaceTextScan(ed, Split(ed.text), 0, Trim(target), replacement)
    IN  IF e.text = ed.text THEN e
        ELSE replaceTextAll(e, target, replacement)

replaceText(ed, target, replacement) ==
    ReplaceTextScan(ed, Split(ed.text), 0, Trim(target), replacement)

\* ------------------------------------------------- content fingerprinting
\* One 16-bit limb of the unsigned 32-bit value produced by `>>> 0`
Limb == 65536

\* x >>> 0 (ToUint32) as two limbs, value = hi * Limb + lo
ToUint32(x) == [hi |-> (x \div Limb) % Limb, lo |-> x % Limb]

\* w + n for a small n >= 0, in double arithmetic (no wrap-around)
WideAdd(w, n) ==
    [hi |-> w.hi + ((w.lo + n) \div Limb), lo |-> (w.lo + n) % Limb]

\* s.slice(w) for a two-limb index w: a string is shorter than one limb
SliceFromWide(s, w) == IF w.hi > 0 THEN Empty ELSE SliceFrom(s, w.lo)

\* file.name.slice(((file.name.lastIndexOf(".") - 1) >>> 0) + 2)
Extension(name) ==
    SliceFromWide(name, WideAdd(ToUint32(LastIndexOf(name, <<".">>) - 1), 2))

\* crypto.createHash("md5").update(bytes).digest("hex"): one token per
\* content, distinct contents give distinct digests
Md5Hex(bytes) == IF bytes = "1" THEN <<"c4ca4238">> ELSE <<"c81e728d">>

NewFileName(file) == Md5Hex(file.bytes) \o <<".">> \o Extension(file.name)

PastePlaceText(newFileName) ==
    <<"![uploading...](">> \o newFileName \o <<")", NL>>

\* ------------------------------------------------------ markup generation
PdfLocalError == <<"PDFs cannot be embedded in local mode">>

UnknownTypeError == <<"Unknown file type">>

Returned(v) == [ok |-> TRUE, value |-> v]

Thrown(msg) == [ok |-> FALSE, value |-> msg]

\* wrapFileDependingOnType with the file:// scheme left out of the prefix
wrapFileNoScheme(location, type, localBase) ==
    LET srcPrefix == IF localBase # Empty
                     THEN localBase \o <<"/">> ELSE Empty
    IN  IF type = "image" THEN Returned(<<"![image](">> \o location \o <<")">>)
        ELSE IF type = "video"
        THEN Returned(<<"<video src=\"">> \o srcPrefix \o location
                      \o <<"\" controls />">>)
        ELSE IF type = "audio"
        THEN Returned(<<"<audio src=\"">> \o srcPrefix \o location
                      \o <<"\" controls />">>)
        ELSE IF type = "pdf"
        THEN IF localBase # Empty THEN Thrown(PdfLocalError)
             ELSE Returned(<<"<iframe frameborder=0 border=0 width=100% height=800",
                             NL, "\tsrc=\"https://docs.google.com/viewer?url=">>
                           \o location \o <<"?raw=true\">", NL, "</iframe>">>)
        ELSE Thrown(UnknownTypeError)

wrapFileDependingOnType(location, type, localBase) ==
    LET srcPrefix == IF localBase # Empty
                     THEN <<"file://">> \o localBase \o <<"/">> ELSE Empty
    IN  IF type = "image" THEN Returned(<<"![image](">> \o location \o <<")">>)
        ELSE IF type = "video"
        THEN Returned(<<"<video src=\"">> \o srcPrefix \o location
                      \o <<"\" controls />">>)
        ELSE IF type = "audio"
        THEN Returned(<<"<audio src=\"">> \o srcPrefix \o location
                      \o <<"\" controls />">>)
        ELSE IF type = "pdf"
        THEN IF localBase # Empty THEN Thrown(PdfLocalError)
             ELSE Returned(<<"<iframe frameborder=0 border=0 width=100% height=800",
                             NL, "\tsrc=\"https://docs.google.com/viewer?url=">>
                           \o location \o <<"?raw=true\">", NL, "</iframe>">>)
        ELSE Thrown(UnknownTypeError)

\* ------------------------------------------------------------ frontmatter
\* A frontmatter value of a boolean key: "undef" when the key is absent
FmBool == {"undef", "true", "false"}

Truthy(v) == v = "true"

FmBoolKeys == {"uploadOnDrag", "localUpload", "uploadVideo", "uploadAudio",
               "uploadPdf"}

\* getFileCache(noteFile)?.frontmatter undefined
NoFm == [present |-> FALSE, uploadOnDrag |-> "undef", localUpload |-> "undef",
         uploadVideo |-> "undef", uploadAudio |-> "undef",
         uploadPdf |-> "undef",
         localUploadFolder |-> [def |-> FALSE, val |-> Empty]]

FmFolders == {[def |-> FALSE, val |-> Empty], [def |-> TRUE, val |-> Empty],
              [def |-> TRUE, val |-> <<"m">>]}

FmDefinedKeys(fm) ==
    Cardinality({k \in FmBoolKeys : fm[k] # "undef"})
    + (IF fm.localUploadFolder.def THEN 1 ELSE 0)

\* fm && fm.key
FmGet(fm, k) == IF fm.present THEN fm[k] ELSE "undef"

\* fm ? fm.localUploadFolder : null
FmFolder(fm) ==
    IF fm.present THEN fm.localUploadFolder ELSE [def |-> FALSE, val |-> Empty]

FolderTruthy(f) == f.def /\ f.val # Empty

\* c ? c : s for a frontmatter boolean c and a setting s
OrElse(c, s) == IF Truthy(c) THEN Truthy(c) ELSE s

\* fmUploadFolder ? fmUploadFolder : s
FolderOrElse(f, s) == IF FolderTruthy(f) THEN f.val ELSE s

\* ------------------------------------------------------------- the state
VARIABLES
    settings,   \* this.settings
    vault,      \* this.app.vault.adapter: its class and base path
    ed,         \* the editor: text, anchor, head
    handler,    \* per event: the locals of its pasteHandler call
    trace,      \* per event: the calls it made to its collaborators, in order
    bucket,     \* the objects the storage sink accepted
    disk,       \* the vault's folders and files
    userOps     \* number of user edits so far

vars == <<settings, vault, ed, handler, trace, bucket, disk, userOps>>

NoFile == [present |-> FALSE, type |-> Empty, name |-> Empty, bytes |-> "1"]

\* a pasteHandler call that has not been made yet
Idle ==
    [pc |-> "idle", evType |-> "paste", defaultPrevented |-> FALSE,
     noteFile |-> FALSE, file |-> NoFile, fm |-> NoFm,
     localUpload |-> FALSE, uploadVideo |-> FALSE, uploadAudio |-> FALSE,
     uploadPdf |-> FALSE, thisType |-> "",
     newFileName |-> Empty, pastePlaceText |-> Empty, key |-> Empty,
     localUploadFolder |-> Empty, localUploadPath |-> Empty,
     outcome |-> "none", imgMarkdownText |-> Empty]

Call(op, arg) == [op |-> op, arg |-> arg]

Log(h, calls) == trace' = [trace EXCEPT ![h] = @ \o calls]

\* ------------------------------------------------------------- the inputs
ImagePng == <<"image", "/", "png">>
VideoMp4 == <<"video", "/", "mp4">>
AudioMpeg == <<"audio", "/", "mpeg">>
AppPdf == <<"application", "/", "pdf">>
TextPlain == <<"text", "/", "plain">>

MimeTypes == {ImagePng, VideoMp4, AudioMpeg, AppPdf, TextPlain}

FileNames == {<<"a", ".", "x">>, <<"a">>}

Contents == {"1", "2"}

AllFiles ==
    {NoFile} \cup [present : {TRUE}, type : MimeTypes, name : FileNames,
                   bytes : Contents]

AllFm ==
    {NoFm} \cup
    {fm \in [present : {TRUE}, uploadOnDrag : FmBool, localUpload : FmBool,
             uploadVideo : FmBool, uploadAudio : FmBool, uploadPdf : FmBool,
             localUploadFolder : FmFolders] : FmDefinedKeys(fm) <= MaxFmKeys}

AllSettings ==
    {s \in
    [uploadOnDrag : BOOLEAN, localUpload : BOOLEAN, uploadVideo : BOOLEAN,
     uploadAudio : BOOLEAN, uploadPdf : BOOLEAN,
     folder : {Empty, <<"f">>}, localUploadFolder : {Empty, <<"l">>},
     imageUrlPath : {<<"https://cdn.example.com/">>},
     bucket : {<<"bkt">>}, public : {TRUE}] :
        (s.folder = Empty) <=> (s.localUploadFolder = Empty)}

Vaults == {[fileSystemAdapter |-> TRUE, basePath |-> <<"/vault">>],
           [fileSystemAdapter |-> FALSE, basePath |-> Empty]}

SendErrors == {<<"AccessDenied">>}

FsErrors == {<<"EACCES">>}

ReadErrors == {<<"NotReadableError">>}

\* the note as it is when the first event arrives
InitialText == <<"t">>

InitWith(S, V) ==
    /\ settings \in S
    /\ vault \in V
    /\ ed \in {[text |-> InitialText, anchor |-> 1, head |-> 1],
               [text |-> InitialText, anchor |-> 0, head |-> 1]}
    /\ handler = [h \in Events |-> Idle]
    /\ trace = [h \in Events |-> << >>]
    /\ bucket = {}
    /\ disk = [dirs |-> {}, files |-> {}]
    /\ userOps = 0

\* ----------------------------------------------------------- event intake
\* the drop gate with the negation of the frontmatter value left out
DropDeclinedSlip(evType, fmUploadOnDrag) ==
    /\ evType = "drop"
    /\ ~settings.uploadOnDrag
    /\ Truthy(fmUploadOnDrag)

\* case "drop": if (!this.settings.uploadOnDrag && !fmUploadOnDrag) return
DropDeclined(evType, fmUploadOnDrag) ==
    /\ evType = "drop"
    /\ ~settings.uploadOnDrag
    /\ ~Truthy(fmUploadOnDrag)

\* the classification with the pdf toggle not consulted
ClassifyUngated(file, uploadVideo, uploadAudio, uploadPdf) ==
    IF ~file.present THEN ""
    ELSE IF Matches(file.type, <<"video">>) /\ uploadVideo THEN "video"
    ELSE IF Matches(file.type, <<"audio">>) /\ uploadAudio THEN "audio"
    ELSE IF Matches(file.type, AppPdf) THEN "pdf"
    ELSE IF Matches(file.type, <<"image">>) THEN "image"
    ELSE ""

\* thisType: the first enabled kind whose pattern the MIME type matches
Classify(file, uploadVideo, uploadAudio, uploadPdf) ==
    IF ~file.present THEN ""
    ELSE IF Matches(file.type, <<"video">>) /\ uploadVideo THEN "video"
    ELSE IF Matches(file.type, <<"audio">>) /\ uploadAudio THEN "audio"
    ELSE IF Matches(file.type, AppPdf) /\ uploadPdf THEN "pdf"
    ELSE IF Matches(file.type, <<"image">>) THEN "image"
    ELSE ""

\* pasteHandler from its entry to its first suspension point (line 154) or
\* return: the locals it has assigned when it gets there
Intake(evType, prevented, noteFile, fm, file) ==
    LET fmUploadOnDrag == FmGet(fm, "uploadOnDrag")
        localUpload == OrElse(FmGet(fm, "localUpload"), settings.localUpload)
        uploadVideo == OrElse(FmGet(fm, "uploadVideo"), settings.uploadVideo)
        uploadAudio == OrElse(FmGet(fm, "uploadAudio"), settings.uploadAudio)
        uploadPdf == OrElse(FmGet(fm, "uploadPdf"), settings.uploadPdf)
        thisType == Classify(file, uploadVideo, uploadAudio, uploadPdf)
        entered == [Idle EXCEPT !.evType = evType,
                                !.defaultPrevented = prevented]
        resolved == [entered EXCEPT !.noteFile = TRUE,
                                    !.fm = fm,
                                    !.localUpload = localUpload,
                                    !.uploadVideo = uploadVideo,
                                    !.uploadAudio = uploadAudio,
                                    !.uploadPdf = uploadPdf]
    IN  IF prevented
        THEN [entered EXCEPT !.pc = "done", !.outcome = "declined"]
        ELSE IF ~noteFile
        THEN [entered EXCEPT !.pc = "done", !.outcome = "declined"]
        ELSE IF DropDeclined(evType, fmUploadOnDrag)
        THEN [resolved EXCEPT !.pc = "done", !.outcome = "declined"]
        ELSE IF thisType # "" /\ file.present
        THEN [resolved EXCEPT !.pc = "awaitBuf", !.file = file,
                              !.thisType = thisType,
                              !.defaultPrevented = TRUE]
        ELSE [resolved EXCEPT !.pc = "done", !.file = file,
                              !.outcome = "declined"]

\* An editor-paste or editor-drop event arrives and pasteHandler runs up to
\* its first await
Start(h, evType, prevented, noteFile, fm, file) ==
    /\ handler[h].pc = "idle"
    /\ \A g \in Events : g < h => handler[g].pc # "idle"
    /\ LET next == Intake(evType, prevented, noteFile, fm, file)
       IN  /\ handler' = [handler EXCEPT ![h] = next]
           /\ Log(h, IF next.pc = "awaitBuf"
                     THEN <<Call("preventDefault", Empty),
                            Call("arrayBuffer", Empty)>>
                     ELSE << >>)
    /\ UNCHANGED <<settings, vault, ed, bucket, disk, userOps>>

\* ---------------------------------------------- placeholder and dispatch
Finish(h, outcome) ==
    handler' = [handler EXCEPT ![h].pc = "done", ![h].outcome = outcome]

\* `await file.arrayBuffer()` (line 154) resolves: the placeholder is
\* written and the upload is started, up to the next await
BufResolved(h) ==
    /\ handler[h].pc = "awaitBuf"
    /\ LET hd == handler[h]
           newFileName == NewFileName(hd.file)
           pastePlaceText == PastePlaceText(newFileName)
           fmUploadFolder == FmFolder(hd.fm)
           folder == FolderOrElse(fmUploadFolder, settings.folder)
           key == IF folder # Empty THEN folder \o <<"/">> \o newFileName
                  ELSE newFileName
           localUploadFolder ==
               FolderOrElse(fmUploadFolder, settings.localUploadFolder)
           localUploadPath ==
               IF localUploadFolder # Empty
               THEN localUploadFolder \o <<"/">> \o newFileName
               ELSE newFileName
           placed == [hd EXCEPT !.newFileName = newFileName,
                                !.pastePlaceText = pastePlaceText,
                                !.key = key]
       IN  /\ ed' = ReplaceSelection(ed, pastePlaceText)
           /\ IF ~hd.localUpload
              THEN /\ handler' = [handler EXCEPT ![h] =
                                      [placed EXCEPT !.pc = "awaitBody"]]
                   /\ Log(h, <<Call("replaceSelection", pastePlaceText),
                               Call("arrayBuffer", Empty)>>)
              ELSE /\ handler' = [handler EXCEPT ![h] =
                        [placed EXCEPT !.pc = "awaitMkdir",
                                       !.localUploadFolder = localUploadFolder,
                                       !.localUploadPath = localUploadPath]]
                   /\ Log(h, <<Call("replaceSelection", pastePlaceText),
                               Call("mkdir", localUploadFolder)>>)
    /\ UNCHANGED <<settings, vault, bucket, disk, userOps>>

\* `await file.arrayBuffer()` (line 154) rejects: the async function's
\* promise rejects and nobody handles it
BufRejected(h) ==
    /\ handler[h].pc = "awaitBuf"
    /\ \E err \in ReadErrors :
           Log(h, <<Call("unhandledRejection", err)>>)
    /\ Finish(h, "unhandled")
    /\ UNCHANGED <<settings, vault, ed, bucket, disk, userOps>>

\* `await file.arrayBuffer()` (line 187) resolves: the command is built and
\* client.send is called
BodyResolved(h) ==
    /\ handler[h].pc = "awaitBody"
    /\ handler' = [handler EXCEPT ![h].pc = "awaitSend"]
    /\ Log(h, <<Call("send", handler[h].key)>>)
    /\ UNCHANGED <<settings, vault, ed, bucket, disk, userOps>>

BodyRejected(h) ==
    /\ handler[h].pc = "awaitBody"
    /\ \E err \in ReadErrors :
           Log(h, <<Call("unhandledRejection", err)>>)
    /\ Finish(h, "unhandled")
    /\ UNCHANGED <<settings, vault, ed, bucket, disk, userOps>>

RemoteOkNotice == <<"Image uploaded to S3 bucket: ">> \o settings.bucket

RemoteErrPrefix ==
    <<"Error uploading image to S3 bucket ">> \o settings.bucket \o <<": ">>

LocalOkNotice(folder) == <<"Image uploaded to ">> \o folder \o <<" folder">>

LocalErrPrefix(folder) ==
    <<"Error uploading image to ">> \o folder \o <<" folder: ">>

\* the .then callback with the success notice raised before the markup is
\* generated, and the placeholder removed in the .catch after its notice
ReconcileNoticeFirst(h, location, localBase, okNotice, errPrefix) ==
    LET hd == handler[h]
        w == wrapFileDependingOnType(location, hd.thisType, localBase)
    IN  IF w.ok
        THEN /\ ed' = replaceText(ed, hd.pastePlaceText, w.value)
             /\ handler' = [handler EXCEPT ![h].pc = "done",
                                           ![h].outcome = "success",
                                           ![h].imgMarkdownText = w.value]
             /\ Log(h, <<Call("notice", okNotice),
                         Call("replaceText", w.value)>>)
        ELSE /\ ed' = replaceText(ed, hd.pastePlaceText, Empty)
             /\ handler' = [handler EXCEPT ![h].pc = "done",
                                           ![h].outcome = "markupFailure"]
             /\ Log(h, <<Call("notice", okNotice),
                         Call("notice", errPrefix \o w.value),
                         Call("replaceText", Empty)>>)

\* The body of a .then callback (lines 195-215 and 236-261) followed, when
\* it throws, by the .catch callback chained after it
Reconcile(h, location, localBase, okNotice, errPrefix) ==
    LET hd == handler[h]
        w == wrapFileDependingOnType(location, hd.thisType, localBase)
    IN  IF w.ok
        THEN /\ ed' = replaceText(ed, hd.pastePlaceText, w.value)
             /\ handler' = [handler EXCEPT ![h].pc = "done",
                                           ![h].outcome = "success",
                                           ![h].imgMarkdownText = w.value]
             /\ Log(h, <<Call("replaceText", w.value),
                         Call("notice", okNotice)>>)
        ELSE /\ ed' = replaceText(ed, hd.pastePlaceText, Empty)
             /\ Finish(h, "markupFailure")
             /\ Log(h, <<Call("replaceText", Empty),
                         Call("notice", errPrefix \o w.value)>>)

\* client.send resolves: the object is stored and the .then callback runs
SendResolved(h) ==
    /\ handler[h].pc = "awaitSend"
    /\ bucket' = bucket \cup
           {[Key |-> handler[h].key, Body |-> handler[h].file.bytes,
             ContentType |-> handler[h].file.type,
             ACL |-> IF settings.public THEN "public-read" ELSE "private"]}
    /\ Reconcile(h, settings.imageUrlPath \o handler[h].key, Empty,
                 RemoteOkNotice, RemoteErrPrefix)
    /\ UNCHANGED <<settings, vault, disk, userOps>>

\* client.send rejects and the .catch callback retries through the local
\* sink
SendRejectedFallback(h) ==
    /\ handler[h].pc = "awaitSend"
    /\ handler' = [handler EXCEPT ![h].pc = "awaitMkdir",
                                  ![h].localUploadFolder =
                                      settings.localUploadFolder,
                                  ![h].localUploadPath =
                                      settings.localUploadFolder \o <<"/">>
                                      \o handler[h].newFileName]
    /\ Log(h, <<Call("mkdir", settings.localUploadFolder)>>)
    /\ UNCHANGED <<settings, vault, ed, bucket, disk, userOps>>

\* client.send rejects: the .catch callback runs
SendRejected(h) ==
    /\ handler[h].pc = "awaitSend"
    /\ \E err \in SendErrors :
           Log(h, <<Call("notice", RemoteErrPrefix \o err)>>)
    /\ Finish(h, "ioFailure")
    /\ UNCHANGED <<settings, vault, ed, bucket, disk, userOps>>

\* mkdir resolves, with the markup of a pdf refused before writeBinary is
\* called instead of after it
MkdirResolvedFailFast(h) ==
    /\ handler[h].pc = "awaitMkdir"
    /\ disk' = [disk EXCEPT !.dirs = @ \cup {handler[h].localUploadFolder}]
    /\ IF handler[h].thisType = "pdf" /\ vault.fileSystemAdapter
       THEN /\ ed' = replaceText(ed, handler[h].pastePlaceText, Empty)
            /\ Finish(h, "markupFailure")
            /\ Log(h, <<Call("replaceText", Empty),
                        Call("notice",
                             LocalErrPrefix(handler[h].localUploadFolder)
                                 \o PdfLocalError)>>)
            /\ UNCHANGED <<settings, vault, bucket, userOps>>
       ELSE /\ handler' = [handler EXCEPT ![h].pc = "awaitWrite"]
            /\ Log(h, <<Call("writeBinary", handler[h].localUploadPath)>>)
            /\ UNCHANGED <<settings, vault, ed, bucket, userOps>>

\* `await adapter.mkdir(localUploadFolder)` resolves: writeBinary is called
MkdirResolved(h) ==
    /\ handler[h].pc = "awaitMkdir"
    /\ disk' = [disk EXCEPT !.dirs = @ \cup {handler[h].localUploadFolder}]
    /\ handler' = [handler EXCEPT ![h].pc = "awaitWrite"]
    /\ Log(h, <<Call("writeBinary", handler[h].localUploadPath)>>)
    /\ UNCHANGED <<settings, vault, ed, bucket, userOps>>

\* `await adapter.mkdir(localUploadFolder)` rejects, outside any try or catch
MkdirRejected(h) ==
    /\ handler[h].pc = "awaitMkdir"
    /\ \E err \in FsErrors :
           Log(h, <<Call("unhandledRejection", err)>>)
    /\ Finish(h, "unhandled")
    /\ UNCHANGED <<settings, vault, ed, bucket, disk, userOps>>

\* writeBinary resolves: the file is on disk and the .then callback runs
WriteResolved(h) ==
    /\ handler[h].pc = "awaitWrite"
    /\ disk' = [disk EXCEPT !.files = @ \cup
           {[path |-> handler[h].localUploadPath,
             bytes |-> handler[h].file.bytes]}]
    /\ LET basePath == IF vault.fileSystemAdapter THEN vault.basePath
                       ELSE Empty
           folder == handler[h].localUploadFolder
       IN  Reconcile(h, handler[h].localUploadPath, basePath,
                     LocalOkNotice(folder), LocalErrPrefix(folder))
    /\ UNCHANGED <<settings, vault, bucket, userOps>>

\* writeBinary rejects: the .catch callback runs
WriteRejected(h) ==
    /\ handler[h].pc = "awaitWrite"
    /\ \E err \in FsErrors :
           Log(h, <<Call("notice",
                         LocalErrPrefix(handler[h].localUploadFolder) \o err)>>)
    /\ Finish(h, "ioFailure")
    /\ UNCHANGED <<settings, vault, ed, bucket, disk, userOps>>

\* ------------------------------------------------------------- the user
\* Between two tasks of the event loop the user edits the buffer
Placeholders ==
    {Trim(handler[h].pastePlaceText) :
        h \in {e \in Events : handler[e].pastePlaceText # Empty}}

UserTexts == {<<"u">>, <<NL>>} \cup Placeholders

\* the user puts the cursor at offset p and types or pastes t
UserType(p, t) ==
    /\ userOps < MaxUserOps
    /\ ed' = ReplaceSelection(SetCursor(ed, p), t)
    /\ userOps' = userOps + 1
    /\ UNCHANGED <<settings, vault, handler, trace, bucket, disk>>

\* the user deletes the token at offset p
UserDelete(p) ==
    /\ userOps < MaxUserOps
    /\ p < Len(ed.text)
    /\ ed' = ReplaceRange(SetCursor(ed, p), Empty, p, p + 1)
    /\ userOps' = userOps + 1
    /\ UNCHANGED <<settings, vault, handler, trace, bucket, disk>>

\* the user moves the cursor to offset p
UserMoveCursor(p) ==
    /\ userOps < MaxUserOps
    /\ <<p, p>> # <<ed.anchor, ed.head>>
    /\ ed' = SetCursor(ed, p)
    /\ userOps' = userOps + 1
    /\ UNCHANGED <<settings, vault, handler, trace, bucket, disk>>

UserEdit ==
    \/ \E p \in 0..Len(ed.text), t \in UserTexts : UserType(p, t)
    \/ \E p \in 0..Len(ed.text) : UserDelete(p)
    \/ \E p \in 0..Len(ed.text) : UserMoveCursor(p)

\* ------------------------------------------------------ the specifications
Progress(h) ==
    \/ BufResolved(h)
    \/ BufRejected(h)
    \/ BodyResolved(h)
    \/ BodyRejected(h)
    \/ SendResolved(h)
    \/ SendRejected(h)
    \/ MkdirResolved(h)
    \/ MkdirRejected(h)
    \/ WriteResolved(h)
    \/ WriteRejected(h)

\* The upload workflow of one pasted file, with the user editing the buffer
\* meanwhile: every media kind enabled, both sinks, both vault adapters
MainSettings ==
    {s \in AllSettings : /\ s.uploadOnDrag /\ ~s.localUpload
                         /\ s.uploadVideo /\ s.uploadAudio /\ s.uploadPdf
                         /\ s.folder = <<"f">>
                         /\ s.localUploadFolder = <<"l">>}

MainFm == {NoFm, [NoFm EXCEPT !.present = TRUE, !.localUpload = "true"]}

MainFiles == {f \in AllFiles : f.present /\ f.bytes = "1"}

Event(h) ==
    /\ handler[h].pc = "idle"
    /\ \E fm \in MainFm, file \in MainFiles :
        Start(h, "paste", FALSE, TRUE, fm, file)

Init == InitWith(MainSettings, Vaults)

Next ==
    \/ Event(1)
    \/ Progress(1)
    \/ UserEdit

Spec == Init /\ [][Next]_vars

\* Event intake: every setting, every frontmatter, every kind of event
IntakeFiles ==
    {f \in AllFiles : f.bytes = "1" /\ (f.present => f.name = <<"a", ".", "x">>)}

IntakeEvent(h) ==
    /\ handler[h].pc = "idle"
    /\ \E evType \in {"paste", "drop"}, prevented \in BOOLEAN,
          noteFile \in BOOLEAN, fm \in AllFm, file \in IntakeFiles :
        Start(h, evType, prevented, noteFile, fm, file)

InitIntake == InitWith(AllSettings, {v \in Vaults : v.fileSystemAdapter})

NextIntake ==
    \/ IntakeEvent(1)
    \/ Progress(1)

SpecIntake == InitIntake /\ [][NextIntake]_vars

\* Concurrent uploads: several events in flight, no user edits
ConcFiles ==
    {f \in AllFiles : /\ f.present /\ f.name = <<"a", ".", "x">>
                      /\ \/ f.type = ImagePng
                         \/ f.type = VideoMp4 /\ f.bytes = "1"}

ConcEvent(h) ==
    /\ handler[h].pc = "idle"
    /\ \E fm \in MainFm, file \in ConcFiles :
        Start(h, "paste", FALSE, TRUE, fm, file)

NextConc ==
    \/ \E h \in Events : ConcEvent(h)
    \/ \E h \in Events : Progress(h)

SpecConc == Init /\ [][NextConc]_vars

\* ------------------------------------------------------------ properties
HasCall(h, op) == \E i \in DOMAIN trace[h] : trace[h][i].op = op

CallCount(h, op) == Cardinality({i \in DOMAIN trace[h] : trace[h][i].op = op})

\* the handler of h called ev.preventDefault()
Claimed(h) == HasCall(h, "preventDefault")

\* `![uploading...](<ContentKey>)` of the upload h
Placeholder(h) ==
    <<"![uploading...](">> \o handler[h].newFileName \o <<")">>

Contains(text, t) == IndexOf(text, t) # -1

\* the handler of h is suspended at an await or has returned
Suspended(h) == handler[h].pc # "idle"

\* text with its first occurrence of t replaced by r
ReplaceFirst(text, t, r) ==
    LET i == IndexOf(text, t)
    IN  SubSeq(text, 1, i) \o r \o SubSeq(text, i + Len(t) + 1, Len(text))

\* a step in which the .then or .catch callback of the upload h runs
ReconcileStep(h) ==
    /\ handler[h].pc \in {"awaitSend", "awaitWrite"}
    /\ handler'[h].pc = "done"

\* C1: whenever an event is claimed and its handler has passed a suspension
\* point, the placeholder has been inserted into the document.
C1_PlaceholderBeforeSuspension ==
    \A h \in Events :
        (Claimed(h) /\ Suspended(h)) => HasCall(h, "replaceSelection")

\* C2: when the put-object call or the local write rejects, the placeholder
\* is removed by a replaceText with an empty replacement, and the failure
\* notice is raised only after that.
C2_IoFailureRemovesPlaceholder ==
    \A h \in Events :
        handler[h].outcome = "ioFailure" =>
            \E i \in DOMAIN trace[h], j \in DOMAIN trace[h] :
                /\ i < j
                /\ trace[h][i] = Call("replaceText", Empty)
                /\ trace[h][j].op = "notice"

\* C3: with no user edit, once an upload has ended in success, I/O failure or
\* markup-generation failure, the document does not contain its placeholder.
C3_PlaceholderEventuallyAbsent ==
    \A h \in Events :
        ( /\ userOps = 0
          /\ handler[h].outcome \in {"success", "ioFailure", "markupFailure"} )
        => ~Contains(ed.text, Placeholder(h))

\* the event h got past the early returns, so its options were resolved
Resolved(h) ==
    /\ handler[h].pc # "idle"
    /\ handler[h].noteFile
    /\ Claimed(h) \/ ~handler[h].defaultPrevented

\* the frontmatter value when the key is defined, else the global setting
Precedence(fmValue, setting) ==
    IF fmValue # "undef" THEN fmValue = "true" ELSE setting

\* C4: the effective value of an overridable option is the frontmatter value
\* whenever the frontmatter defines the key (also when it defines it as
\* false), else the global setting.
C4_FrontmatterWins ==
    \A h \in Events :
        Resolved(h) =>
            LET fm == handler[h].fm
            IN  /\ handler[h].localUpload
                     = Precedence(FmGet(fm, "localUpload"), settings.localUpload)
                /\ handler[h].uploadVideo
                     = Precedence(FmGet(fm, "uploadVideo"), settings.uploadVideo)
                /\ handler[h].uploadAudio
                     = Precedence(FmGet(fm, "uploadAudio"), settings.uploadAudio)
                /\ handler[h].uploadPdf
                     = Precedence(FmGet(fm, "uploadPdf"), settings.uploadPdf)

\* C5: a successful reconciliation that finds the placeholder turns the
\* document into the document with the first occurrence of the placeholder
\* replaced by the generated markup, every other token unchanged.
C5_RoundTrip ==
    [][\A h \in Events :
          ( /\ ReconcileStep(h)
            /\ handler'[h].outcome = "success"
            /\ Contains(ed.text, Placeholder(h)) )
          => ed'.text = ReplaceFirst(ed.text, Placeholder(h),
                                     handler'[h].imgMarkdownText)]_vars

\* the upload succeeded after the user had typed into the document, and
\* the markup stands where the placeholder was
C5_Witness ==
    \E h \in Events :
        /\ handler[h].outcome = "success"
        /\ userOps > 0
        /\ Contains(ed.text, <<"u">>)
        /\ Contains(ed.text, handler[h].imgMarkdownText \o <<NL>>)
        /\ ~Contains(ed.text, Placeholder(h))

\* C6: a reconciliation that finds the placeholder in no line of the
\* document leaves the text and the cursor unchanged and raises no error.
C6_NotFoundNoOp ==
    [][\A h \in Events :
          ( /\ ReconcileStep(h)
            /\ \A i \in DOMAIN Split(ed.text) :
                   ~Contains(Split(ed.text)[i], Placeholder(h)) )
          => /\ ed' = ed
             /\ handler'[h].outcome # "unhandled"
             /\ ~HasCall(h, "unhandledRejection")']_vars

\* the upload succeeded, but the user had broken the placeholder: what is
\* left of it is still in the document
C6_Witness ==
    \E h \in Events :
        /\ handler[h].outcome = "success"
        /\ ~Contains(ed.text, Placeholder(h))
        /\ Contains(ed.text, <<"![uploading...](">>)
        /\ ~Contains(ed.text, handler[h].imgMarkdownText)

\* C7: once the upload is dispatched, no failure escapes as an unhandled
\* rejection, and a failed upload raises exactly one notice.
C7_NoUnhandledRejection ==
    \A h \in Events :
        (HasCall(h, "mkdir") \/ HasCall(h, "send")) =>
            /\ ~HasCall(h, "unhandledRejection")
            /\ (handler[h].pc = "done" /\ handler[h].outcome # "success")
                   => CallCount(h, "notice") = 1

\* C8: a claimed PDF in local mode never ends in success, whatever the vault
\* adapter is: once its write has completed the outcome is the markup
\* failure and no markup was written into the document.
C8_LocalPdfAlwaysFails ==
    \A h \in Events :
        (Claimed(h) /\ handler[h].thisType = "pdf" /\ handler[h].localUpload)
        => /\ handler[h].outcome # "success"
           /\ \A i \in DOMAIN trace[h] :
                  trace[h][i].op = "replaceText" => trace[h][i].arg = Empty

\* the MIME type of the file of h matches a kind whose toggle is off
KindDisabled(h) ==
    LET type == handler[h].file.type
    IN  \/ Matches(type, <<"video">>) /\ ~handler[h].uploadVideo
        \/ Matches(type, <<"audio">>) /\ ~handler[h].uploadAudio
        \/ Matches(type, AppPdf) /\ ~handler[h].uploadPdf

\* the handler of h returned without any effect
Declined(h) ==
    /\ handler[h].pc = "done"
    /\ handler[h].outcome = "declined"
    /\ trace[h] = << >>
    /\ ed.text = InitialText
    /\ bucket = {}
    /\ disk = [dirs |-> {}, files |-> {}]

\* C9: an event whose file is of a media kind that is disabled in the
\* effective configuration is declined: no preventDefault, no placeholder, no
\* upload, the document unmodified.
C9_DisabledKindDeclined ==
    \A h \in Events :
        (Resolved(h) /\ handler[h].file.present /\ KindDisabled(h))
        => Declined(h)

\* a pasted pdf with the pdf toggle off, while pdf would have been the kind
C9_Witness ==
    \E h \in Events :
        /\ Resolved(h)
        /\ handler[h].evType = "paste"
        /\ handler[h].file.type = AppPdf
        /\ ~handler[h].uploadPdf
        /\ handler[h].uploadVideo
        /\ Declined(h)

\* C10: a drop with the global uploadOnDrag off and no frontmatter enabling
\* it is declined, whatever the file and the other settings are.
C10_DropGate ==
    \A h \in Events :
        ( /\ handler[h].pc # "idle"
          /\ handler[h].evType = "drop"
          /\ ~settings.uploadOnDrag
          /\ ~(handler[h].fm.present /\ handler[h].fm.uploadOnDrag = "true") )
        => Declined(h)

\* a dropped file with every media toggle on in the settings, the gate off
C10_Witness ==
    \E h \in Events :
        /\ Resolved(h)
        /\ handler[h].evType = "drop"
        /\ ~settings.uploadOnDrag
        /\ settings.uploadVideo /\ settings.uploadAudio /\ settings.uploadPdf
        /\ handler[h].fm.present
        /\ handler[h].fm.uploadOnDrag = "false"
        /\ Declined(h)

\* the upload h called the remote sink / the local sink
UsedRemote(h) == HasCall(h, "send")

UsedLocal(h) == HasCall(h, "mkdir") \/ HasCall(h, "writeBinary")

\* C11: an event uses one sink only, the one its resolved localUpload flag
\* selects: never both, each sink call at most once, also after the chosen
\* sink failed; an upload that got to an outcome of its sink used one.
C11_OneSink ==
    \A h \in Events :
        /\ ~(UsedRemote(h) /\ UsedLocal(h))
        /\ CallCount(h, "send") <= 1
        /\ CallCount(h, "mkdir") <= 1
        /\ CallCount(h, "writeBinary") <= 1
        /\ UsedRemote(h) => ~handler[h].localUpload
        /\ UsedLocal(h) => handler[h].localUpload
        /\ handler[h].outcome \in {"success", "ioFailure", "markupFailure"}
               => (UsedRemote(h) \/ UsedLocal(h))
        /\ handler[h].pc \in {"awaitSend"} => UsedRemote(h)
        /\ handler[h].pc \in {"awaitMkdir", "awaitWrite"} => UsedLocal(h)

\* the remote sink failed and the upload is over: the local sink was not
\* tried
C11_Witness ==
    \E h \in Events :
        /\ handler[h].outcome = "ioFailure"
        /\ UsedRemote(h)
        /\ ~UsedLocal(h)
        /\ disk = [dirs |-> {}, files |-> {}]

\* number of occurrences of t in text
Count(text, t) ==
    Cardinality({i \in 0..Len(text) : StartsWithAt(text, t, i)})

\* the placeholder of the upload h has been written into the document
Inserted(h) == handler[h].newFileName # Empty

\* C12: with two uploads of distinct content keys in flight and no user
\* edit, a reconciliation of one leaves every occurrence of the other's
\* placeholder in place, and once both have succeeded (and so has every
\* further upload that shares a content key with one of them, see C18) the
\* document holds both markups and neither placeholder.
C12_IndependentUploads ==
    [][\A h \in Events, g \in Events :
          ( /\ h # g
            /\ ReconcileStep(h)
            /\ Inserted(g)
            /\ handler[g].newFileName # handler[h].newFileName )
          => /\ Count(ed'.text, Placeholder(g)) = Count(ed.text, Placeholder(g))
             /\ ( /\ handler'[h].outcome = "success"
                  /\ handler'[g].outcome = "success"
                  /\ \A k \in Events :
                         handler'[k].newFileName
                             \in {handler'[h].newFileName,
                                  handler'[g].newFileName}
                         => handler'[k].outcome = "success" )
                => /\ Contains(ed'.text, handler'[h].imgMarkdownText)
                   /\ Contains(ed'.text, handler'[g].imgMarkdownText)
                   /\ ~Contains(ed'.text, Placeholder(h))
                   /\ ~Contains(ed'.text, Placeholder(g))]_vars

\* the placeholder of g was written right after the one of h, then h
\* succeeded while g was still in flight: the markup of h is followed by the
\* untouched placeholder of g
C12_Witness ==
    \E h \in Events, g \in Events :
        /\ h # g
        /\ handler[h].newFileName # handler[g].newFileName
        /\ handler[h].outcome = "success"
        /\ handler[g].pc \in {"awaitBody", "awaitSend", "awaitMkdir",
                              "awaitWrite"}
        /\ Contains(ed.text, handler[h].imgMarkdownText \o <<NL>>
                             \o Placeholder(g))

\* the content key as stated: the bare digest for a name without a dot, else
\* the digest, a dot and what follows the last dot of the name
StatedKey(file) ==
    LET dot == LastIndexOf(file.name, <<".">>)
    IN  IF dot = -1 THEN Md5Hex(file.bytes)
        ELSE Md5Hex(file.bytes) \o <<".">> \o SliceFrom(file.name, dot + 1)

\* C13: the content key of a file whose name has no dot is the bare digest,
\* with no dot appended; for a name with a dot it is the digest, a dot and
\* the substring after the last dot.
C13_ContentKey ==
    \A h \in Events :
        Inserted(h) => handler[h].newFileName = StatedKey(handler[h].file)

\* a claimed audio or video event in local mode with a local folder, whose
\* write succeeded
LocalMediaDone(h) ==
    /\ handler[h].outcome = "success"
    /\ handler[h].thisType \in {"audio", "video"}
    /\ handler[h].localUpload
    /\ handler[h].localUploadFolder # Empty

MediaTag(h) ==
    IF handler[h].thisType = "audio" THEN <<"<audio src=\"">>
    ELSE <<"<video src=\"">>

\* the path F/<ContentKey> of the upload h
StatedPath(h) ==
    handler[h].localUploadFolder \o <<"/">> \o handler[h].newFileName

\* <audio src="file://<basePath>/F/<ContentKey>" controls />
StatedMarkup(h) ==
    MediaTag(h) \o <<"file://">> \o vault.basePath \o <<"/">>
    \o StatedPath(h) \o <<"\" controls />">>

\* <audio src="F/<ContentKey>" controls />
BareMarkup(h) == MediaTag(h) \o StatedPath(h) \o <<"\" controls />">>

Written(h) ==
    [path |-> StatedPath(h), bytes |-> handler[h].file.bytes] \in disk.files

ReplacedBy(h, markup) ==
    \E i \in DOMAIN trace[h] : trace[h][i] = Call("replaceText", markup)

CallsAt(h, op) == {i \in DOMAIN trace[h] : trace[h][i].op = op}

\* the notice of h at position i is an error notice carrying msg
IsErrorNotice(h, i, msg) ==
    LET text == trace[h][i].arg
    IN  /\ trace[h][i].op = "notice"
        /\ Len(text) >= Len(msg)
        /\ SubSeq(text, Len(text) - Len(msg) + 1, Len(text)) = msg
        /\ Head(text) \in {"Error uploading image to S3 bucket ",
                           "Error uploading image to "}

\* C15: when the send or write succeeded and markup generation threw, the
\* placeholder removal (replaceText with an empty replacement) came before
\* the error notice, which is the only notice of the upload: the success
\* notice was never raised.
C15_MarkupFailureOrder ==
    \A h \in Events :
        handler[h].outcome = "markupFailure" =>
            /\ CallCount(h, "notice") = 1
            /\ \A j \in CallsAt(h, "notice") :
                   /\ IsErrorNotice(h, j, PdfLocalError)
                   /\ \E i \in CallsAt(h, "replaceText") :
                          i < j /\ trace[h][i].arg = Empty
            /\ \A i \in CallsAt(h, "replaceText") : trace[h][i].arg = Empty

\* the write of a pdf succeeded in a desktop vault and its markup could not
\* be generated; the placeholder is gone
C15_Witness ==
    \E h \in Events :
        /\ handler[h].outcome = "markupFailure"
        /\ HasCall(h, "writeBinary")
        /\ userOps = 0
        /\ ~Contains(ed.text, Placeholder(h))
        /\ ~Contains(ed.text, <<"![uploading...](">>)

\* a step in which the callback of h calls replaceText: the .then callbacks
\* do, with the markup or, from the inner catch, with the empty string; the
\* .catch of a rejected send or write does not
ReplaceTextStep(h) ==
    /\ ReconcileStep(h)
    /\ handler'[h].outcome \in {"success", "markupFailure"}

\* the replacement the callback of h has passed to replaceText in this step
Replacement(h) ==
    IF handler'[h].outcome = "success" THEN handler'[h].imgMarkdownText
    ELSE Empty

\* C16: a reconciliation replaces only the first occurrence of the
\* placeholder (first line that has one, leftmost in it); when the user has
\* duplicated the placeholder, every later occurrence stays in the document,
\* unchanged.
C16_FirstOccurrenceOnly ==
    [][\A h \in Events :
          ( /\ ReplaceTextStep(h)
            /\ Count(ed.text, Placeholder(h)) >= 2 )
          => /\ ed'.text = ReplaceFirst(ed.text, Placeholder(h),
                                        Replacement(h))
             /\ \A i \in 0..Len(ed.text) :
                    ( /\ i > IndexOf(ed.text, Placeholder(h))
                      /\ StartsWithAt(ed.text, Placeholder(h), i) )
                    => StartsWithAt(ed'.text, Placeholder(h),
                                    i - Len(Placeholder(h))
                                      + Len(Replacement(h)))
             /\ Count(ed'.text, Placeholder(h))
                    >= Count(ed.text, Placeholder(h)) - 1]_vars

\* the user duplicated the placeholder, the upload succeeded, and the markup
\* stands where the first occurrence was, before the occurrence left behind
C16_Witness ==
    \E h \in Events :
        /\ handler[h].outcome = "success"
        /\ userOps = 1
        /\ Count(ed.text, Placeholder(h)) = 1
        /\ Contains(ed.text, handler[h].imgMarkdownText)
        /\ IndexOf(ed.text, handler[h].imgMarkdownText)
               < IndexOf(ed.text, Placeholder(h))

\* the offset at which the replaceText call of this step finds the placeholder
FoundAt(h) == IndexOf(ed.text, Placeholder(h))

\* the cursor lies outside the placeholder span that is replaced
CursorElsewhere(h) ==
    /\ ed.anchor = ed.head
    /\ \/ ed.head < FoundAt(h)
       \/ ed.head > FoundAt(h) + Len(Placeholder(h))

\* C17: when a reconciliation finds and replaces the placeholder while the
\* cursor lies elsewhere in the document, the cursor is after the replacement
\* where it was before it: at the same offset when it was before the
\* placeholder, and at the same text (shifted by the length difference) when
\* it was after it.
C17_CursorNotMoved ==
    [][\A h \in Events :
          ( /\ ReplaceTextStep(h)
            /\ Contains(ed.text, Placeholder(h))
            /\ CursorElsewhere(h) )
          => LET from == FoundAt(h)
                 to   == from + Len(Placeholder(h))
             IN  /\ ed'.head = MapPos(ed.head, from, to, Len(Replacement(h)))
                 /\ ed'.anchor = ed'.head]_vars

\* the uploads that inserted the same placeholder text as h
SameKey(h) ==
    {g \in Events : Inserted(g) /\ handler[g].newFileName = handler[h].newFileName}

\* the upload g has inserted its placeholder and its callback has not run
InFlight(g) == Inserted(g) /\ handler[g].pc # "done"

\* C18: for uploads of identical content and extension, with no user edit
\* and every completed one of them successful, the number of occurrences of
\* the shared placeholder equals the number of those uploads still in
\* flight: each successful reconciliation removed exactly one occurrence,
\* and none remains once all have succeeded, in whichever order.
C18_SharedPlaceholderCount ==
    \A h \in Events :
        ( /\ Inserted(h)
          /\ userOps = 0
          /\ \A g \in SameKey(h) :
                 InFlight(g) \/ handler[g].outcome = "success" )
        => Count(ed.text, Placeholder(h))
               = Cardinality({g \in SameKey(h) : InFlight(g)})

\* two uploads share a placeholder; the later one has succeeded first and
\* the occurrence of the earlier one is still in the document
C18_Witness ==
    \E h \in Events, g \in Events :
        /\ g < h
        /\ h \in SameKey(g)
        /\ handler[h].outcome = "success"
        /\ InFlight(g)
        /\ Count(ed.text, Placeholder(g)) = 1

\* the notice that the markup of a pdf cannot be generated in local mode
PdfNotice(h) ==
    Call("notice", LocalErrPrefix(handler[h].localUploadFolder)
                       \o PdfLocalError)

\* C19: whenever the "PDFs cannot be embedded in local mode" error notice
\* has been shown, mkdir and writeBinary were called, in this order and
\* before the notice, and the file with the pasted bytes exists at
\* folder/<content key>: the failure of the markup does not undo the write.
C19_PdfWrittenBeforeFailure ==
    \A h \in Events :
        \A j \in DOMAIN trace[h] :
            trace[h][j] = PdfNotice(h) =>
                /\ \E m \in CallsAt(h, "mkdir"), w \in CallsAt(h, "writeBinary") :
                       /\ m < w /\ w < j
                       /\ trace[h][m].arg = handler[h].localUploadFolder
                       /\ trace[h][w].arg = handler[h].localUploadPath
                /\ handler[h].localUploadFolder \in disk.dirs
                /\ [path  |-> handler[h].localUploadFolder \o <<"/">>
                                  \o handler[h].newFileName,
                    bytes |-> handler[h].file.bytes] \in disk.files

\* a pdf pasted in local mode in a desktop vault: the error notice is shown
\* and the file is in the folder
C19_Witness ==
    \E h \in Events :
        /\ handler[h].thisType = "pdf"
        /\ handler[h].localUpload
        /\ vault.fileSystemAdapter
        /\ HasCall(h, "notice")
        /\ trace[h][Len(trace[h])] = PdfNotice(h)
        /\ \E f \in disk.files : f.path = handler[h].localUploadPath

====
